---- MODULE Spec2Model ----
\* Store-and-forward (SAF) message handler of the DHT inbound pipeline:
\* comms/dht/src/store_forward/saf_handler/task.rs (MessageHandlerTask).
EXTENDS Integers, Sequences, FiniteSets, TLC

\* ------------------------------------------------------------------ bounds
MaxTime == 1                    \* the wall clock runs over 0..MaxTime
store_capacity == 2             \* SAFStorage::new(capacity)
saf_max_returned_messages == 1  \* DhtConfig.saf_max_returned_messages
MaxEntries == 2                 \* entries in a StoredMessagesResponse made by a peer

\* ------------------------------------------------------------ identities
\* A peer is its node id and its public key; the node id is derived from the key.
Keys == 1..2
Peer(k) == [node_id |-> k, public_key |-> k]
NoPeer == [node_id |-> 0, public_key |-> 0]
\* The identity this node's tasks are built with.
node_identity == Peer(1)

None == -1                      \* Option::None of StoredMessagesRequest.since
Times == 0..MaxTime

\* mpsc::channel(1): the capacity of the channel behind OutboundMessageRequester.
oms_capacity == 1

\* ---------------------------------------------------------- destinations
Undisclosed == [kind |-> "Undisclosed", id |-> 0]
PublicKey(k) == [kind |-> "PublicKey", id |-> k]
NodeId(k) == [kind |-> "NodeId", id |-> k]

\* -------------------------------------------------------- stored messages
\* A StoredMessage.  encrypted_body is a ciphertext: the key it was encrypted
\* to (enc_for, the ECDH partner of origin_public_key), whether the bytes are a
\* well-formed ciphertext (cipher_ok), whether the plaintext is a serialized
\* Message (inner_ok) and the payload of that Message.  sig_valid says whether
\* origin_signature is a signature of encrypted_body under origin_public_key.
StoredMessage(dest, origin, sig, enc, cok, iok, payload, at) ==
    [destination |-> dest, origin_public_key |-> origin, sig_valid |-> sig,
     enc_for |-> enc, cipher_ok |-> cok, inner_ok |-> iok, payload |-> payload,
     stored_at |-> at]

\* Messages the local storage path holds for other peers: the signature is not
\* checked on insertion, the storing node took them from the network as they were.
StoredPool(at) ==
    { StoredMessage(Undisclosed, 2, TRUE, 1, TRUE, TRUE, "A", at),
      StoredMessage(PublicKey(1), 1, TRUE, 1, TRUE, TRUE, "B", at),
      StoredMessage(NodeId(2), 1, TRUE, 2, TRUE, TRUE, "C", at),
      StoredMessage(Undisclosed, 1, TRUE, 2, TRUE, TRUE, "H", at),
      StoredMessage(PublicKey(1), 2, FALSE, 1, TRUE, TRUE, "S", at) }

\* Entries a remote relay may put in a response: anything, well formed or not.
RelayPool ==
    StoredPool(0) \cup
    { StoredMessage(PublicKey(2), 1, FALSE, 2, TRUE, TRUE, "D", 0),
      StoredMessage(Undisclosed, 1, FALSE, 1, TRUE, TRUE, "E", 0),
      StoredMessage(NodeId(1), 1, TRUE, 1, TRUE, FALSE, "F", 0),
      StoredMessage(Undisclosed, 1, TRUE, 1, FALSE, TRUE, "G", 0) }

\* --------------------------------------------------------- message bodies
Body(kind, since, entries, payload) ==
    [kind |-> kind, since |-> since, entries |-> entries, payload |-> payload]
NoBody == Body("none", None, <<>>, "")
GarbageBody == Body("garbage", None, <<>>, "")
RequestBody(since) == Body("request", since, <<>>, "")
ResponseBody(entries) == Body("response", None, entries, "")
UserBody(payload) == Body("user", None, <<>>, payload)

SeqsUpTo(S, n) == UNION { [1..k -> S] : k \in 0..n }

\* --------------------------------------------------------- inbound messages
DhtMessageTypes == {"None", "Join", "SAFRequestMessages", "SAFStoredMessages"}

DecryptedDhtMessage(type, peer, failed, body) ==
    [message_type |-> type, source_peer |-> peer, decryption_failed |-> failed,
     body |-> body]
NoMessage == DecryptedDhtMessage("None", NoPeer, FALSE, NoBody)

\* The bodies a message of each type arrives with when it decrypted.
BodiesOf(type) ==
    CASE type = "SAFRequestMessages" ->
             {GarbageBody} \cup { RequestBody(s) : s \in {None} \cup (Times \ {0}) }
      [] type = "SAFStoredMessages" ->
             {GarbageBody} \cup { ResponseBody(es) : es \in SeqsUpTo(RelayPool, MaxEntries) }
      [] OTHER -> {UserBody("U")}

InboundMessages ==
    { DecryptedDhtMessage(type, Peer(k), TRUE, NoBody) :
          type \in DhtMessageTypes, k \in Keys }
    \cup UNION { { DecryptedDhtMessage(type, Peer(k), FALSE, b) :
                       k \in Keys, b \in BodiesOf(type) } : type \in DhtMessageTypes }

\* ------------------------------------------------------------------ state
VARIABLES
    store,          \* SAFStorage: sequence of [key, msg, expiry], insertion order
    now,            \* wall clock
    peer_manager,   \* public keys the PeerManager knows
    outbound,       \* messages handed to the OutboundMessageRequester, not yet sent on
    task            \* the MessageHandlerTask instances, by task id

vars == <<store, now, peer_manager, outbound, task>>

IdleTask ==
    [pc |-> "idle", message |-> NoMessage, result |-> "none",
     entered |-> "none",      \* the sub-handler that was entered
     region |-> "none",       \* what in_network_region answered
     since |-> None,          \* retrieve_msgs.since
     messages |-> <<>>,       \* the messages compiled for the requester
     results |-> <<>>,        \* per entry: the result of its process task
     successful |-> <<>>,     \* successful_msgs_iter
     forwarded |-> 0,         \* entries of results already handed to call_all
     calls |-> <<>>,          \* messages this task passed to next_service
     sent |-> <<>>,           \* messages this task passed to outbound_service
     logs |-> <<>>,           \* log events of this task
     reads |-> 0,             \* store.with_inner calls of this task
     holds_lock |-> FALSE,    \* this task is inside store.with_inner
     cursor |-> 0,            \* store entries the live iterator of the closure has gone over
     compiled_for |-> NoPeer] \* requester a relayed response was compiled for


Tasks == DOMAIN task

\* ---------------------------------------------------------- SAFStorage
\* The lock inside SAFStorage is free: no task is inside with_inner.
LockFree == \A t \in Tasks : ~task[t].holds_lock

Unexpired(e, t) == t < e.expiry

\* store.iter(): the entries that have not expired, in the store's order.
StoreIter(s, t) == SelectSeq(s, LAMBDA e : Unexpired(e, t))

KeysOf(s) == { s[i].key : i \in 1..Len(s) }

\* The position of the entry with the oldest stored_at (the first such).
Oldest(s) ==
    CHOOSE i \in 1..Len(s) :
        \A j \in 1..Len(s) :
            \/ s[i].msg.stored_at < s[j].msg.stored_at
            \/ (s[i].msg.stored_at = s[j].msg.stored_at /\ i <= j)

RemoveAt(s, i) == SubSeq(s, 1, i - 1) \o SubSeq(s, i + 1, Len(s))

StoreInsertNoEvictMut(s, key, msg, ttl, t) ==
    LET e == [key |-> key, msg |-> msg, expiry |-> t + ttl] IN
    IF key \in KeysOf(s)
    THEN [i \in 1..Len(s) |-> IF s[i].key = key THEN e ELSE s[i]]
    ELSE Append(s, e)
\* store.insert(key, message, ttl)
StoreInsert(s, key, msg, ttl, t) ==
    LET e == [key |-> key, msg |-> msg, expiry |-> t + ttl] IN
    IF key \in KeysOf(s)
    THEN [i \in 1..Len(s) |-> IF s[i].key = key THEN e ELSE s[i]]
    ELSE IF Len(s) >= store_capacity
         THEN Append(RemoveAt(s, Oldest(s)), e)
         ELSE Append(s, e)

\* ------------------------------------------------- pure parts of the task
\* DhtMessageType::is_dht_message: every overlay-control type, the SAF types included.
is_dht_message(type) == type /= "None"

ShouldDiscardMut(message) ==
    message.message_type = "SAFRequestMessages" /\ message.decryption_failed
\* run: the guard of the early return.
ShouldDiscard(message) ==
    is_dht_message(message.message_type) /\ message.decryption_failed

RouteMut(type) ==
    CASE type = "SAFRequestMessages" -> "request"
      [] OTHER -> "next"
\* run: the match on message_type.
Route(type) ==
    CASE type = "SAFRequestMessages" -> "request"
      [] type = "SAFStoredMessages" -> "response"
      [] OTHER -> "next"

\* StoredMessagesRequest::from_binary(&msg.body)
RequestFromBinary(body) ==
    IF body.kind = "request" THEN [ok |-> TRUE, since |-> body.since]
    ELSE [ok |-> FALSE, since |-> None]

\* StoredMessagesResponse::from_binary(&msg.body)
ResponseFromBinary(body) ==
    IF body.kind = "response" THEN [ok |-> TRUE, messages |-> body.entries]
    ELSE [ok |-> FALSE, messages |-> <<>>]

SinceFilterMut(since, msg) == since = None \/ since < msg.stored_at
SinceIgnoredMut(since, msg) == TRUE
\* handle_stored_messages_request: the first filter of the store iterator.
SinceFilter(since, msg) == since = None \/ since <= msg.stored_at

DestinationFilterMut(msg, source_peer) ==
    CASE msg.destination.kind = "Undisclosed" -> TRUE
      [] msg.destination.kind = "PublicKey" -> TRUE
      [] msg.destination.kind = "NodeId" -> msg.destination.id = source_peer.node_id
\* handle_stored_messages_request: the second filter of the store iterator.
DestinationFilter(msg, source_peer) ==
    CASE msg.destination.kind = "Undisclosed" -> TRUE
      [] msg.destination.kind = "PublicKey" -> msg.destination.id = source_peer.public_key
      [] msg.destination.kind = "NodeId" -> msg.destination.id = source_peer.node_id

Rest(s, n) == SubSeq(s, n + 1, Len(s))
Take(s, n) == SubSeq(s, 1, IF Len(s) < n THEN Len(s) ELSE n)
MapMsg(s) == [i \in 1..Len(s) |-> s[i].msg]

CompileMessagesRawMut(s, t, since, source_peer) ==
    MapMsg(Take(SelectSeq(SelectSeq(s, LAMBDA e : SinceFilter(since, e.msg)),
                          LAMBDA e : DestinationFilter(e.msg, source_peer)),
                saf_max_returned_messages))
\* handle_stored_messages_request: the closure given to store.with_inner.
CompileMessages(s, t, since, source_peer) ==
    MapMsg(Take(SelectSeq(SelectSeq(StoreIter(s, t),
                                    LAMBDA e : SinceFilter(since, e.msg)),
                          LAMBDA e : DestinationFilter(e.msg, source_peer)),
                saf_max_returned_messages))

RegionResultMut(region) ==
    CASE region = "err" -> [returns |-> TRUE, result |-> "Err_PeerManagerError"]
      [] region = "out" -> [returns |-> FALSE, result |-> "none"]
      [] OTHER -> [returns |-> FALSE, result |-> "none"]
\* handle_stored_messages_request: what the answer of in_network_region leads to.
RegionResult(region) ==
    CASE region = "err" -> [returns |-> TRUE, result |-> "Err_PeerManagerError"]
      [] region = "out" -> [returns |-> TRUE, result |-> "Ok"]
      [] OTHER -> [returns |-> FALSE, result |-> "none"]

SendResultMut(sent_ok) == "Ok"
\* handle_stored_messages_request: the result after send_message(..).await?
SendResult(sent_ok) == IF sent_ok THEN "Ok" ELSE "Err_OutboundFailed"

CheckDestinationMut(identity, msg) == "Ok"
\* check_destination
check_destination(identity, msg) ==
    IF CASE msg.destination.kind = "Undisclosed" -> TRUE
         [] msg.destination.kind = "PublicKey" -> identity.public_key = msg.destination.id
         [] msg.destination.kind = "NodeId" -> identity.node_id = msg.destination.id
    THEN "Ok" ELSE "InvalidDestination"

CheckSignatureMut(msg) == "Ok"
\* check_signature
check_signature(msg) == IF msg.sig_valid THEN "Ok" ELSE "InvalidSignature"

\* crypt::decrypt under the ECDH secret of this node and the origin: it yields
\* the plaintext when the body is a ciphertext made for this node's key.
Decrypt(identity, msg) == msg.cipher_ok /\ msg.enc_for = identity.public_key

\* The StoreAndForwardError the ? of try_decrypt makes of the error of
\* crypt::decrypt.
FromCipherError == "DecryptionFailed"

TryDecryptMut(identity, msg) ==
    IF ~Decrypt(identity, msg) THEN FromCipherError
    ELSE IF ~msg.inner_ok THEN "MessageFormatError"
    ELSE "Ok"
\* try_decrypt
try_decrypt(identity, msg) ==
    IF ~Decrypt(identity, msg) THEN FromCipherError
    ELSE IF ~msg.inner_ok THEN "DecryptionFailed"
    ELSE "Ok"

\* peer_manager.find_with_public_key
find_with_public_key(peers, pk) == IF pk \in peers THEN "Ok" ELSE "PeerNotFound"

SucceededFromKeyMut(msg) ==
    DecryptedDhtMessage("None", Peer(msg.enc_for), FALSE, UserBody(msg.payload))
\* DecryptedDhtMessage::succeeded(decrypted_message, DhtInboundMessage::new(
\*     message.dht_header, peer, message.comms_header, vec![]))
Succeeded(msg) ==
    DecryptedDhtMessage("None", Peer(msg.origin_public_key), FALSE, UserBody(msg.payload))

\* The result of a process task: err and msg are the Result it returns, ran
\* lists the calls the closure made.
Failed(err, ran) == [err |-> err, msg |-> NoMessage, ran |-> ran]

ProcessSignatureFirstMut(identity, peers, msg) ==
    LET d == check_destination(identity, msg)
        s == check_signature(msg)
        c == try_decrypt(identity, msg)
        p == find_with_public_key(peers, msg.origin_public_key)
    IN  IF s /= "Ok" THEN Failed(s, <<"check_signature">>)
        ELSE IF d /= "Ok" THEN Failed(d, <<"check_signature", "check_destination">>)
        ELSE IF c /= "Ok"
        THEN Failed(c, <<"check_signature", "check_destination", "try_decrypt">>)
        ELSE IF p /= "Ok"
        THEN Failed(p, <<"check_signature", "check_destination", "try_decrypt",
                         "find_with_public_key">>)
        ELSE [err |-> "Ok", msg |-> Succeeded(msg),
              ran |-> <<"check_signature", "check_destination", "try_decrypt",
                        "find_with_public_key">>]
\* process_incoming_stored_message: the closure run on the blocking pool;
\* each ? returns at the first error.
process_incoming_stored_message(identity, peers, msg) ==
    LET d == check_destination(identity, msg)
        s == check_signature(msg)
        c == try_decrypt(identity, msg)
        p == find_with_public_key(peers, msg.origin_public_key)
    IN  IF d /= "Ok" THEN Failed(d, <<"check_destination">>)
        ELSE IF s /= "Ok" THEN Failed(s, <<"check_destination", "check_signature">>)
        ELSE IF c /= "Ok"
        THEN Failed(c, <<"check_destination", "check_signature", "try_decrypt">>)
        ELSE IF p /= "Ok"
        THEN Failed(p, <<"check_destination", "check_signature", "try_decrypt",
                         "find_with_public_key">>)
        ELSE [err |-> "Ok", msg |-> Succeeded(msg),
              ran |-> <<"check_destination", "check_signature", "try_decrypt",
                        "find_with_public_key">>]

Pending == Failed("pending", <<>>)

LogOfQuietMut(r, relay) ==
    CASE r.err = "Ok" -> <<>>
      [] r.err \in {"DecryptionFailed", "InvalidSignature"} ->
             << [level |-> "debug", reason |-> r.err, node_id |-> relay.node_id] >>
      [] r.err = "PeerNotFound" ->
             << [level |-> "debug", reason |-> r.err, node_id |-> 0] >>
      [] OTHER ->
             << [level |-> "warn", reason |-> r.err, node_id |-> relay.node_id] >>
\* handle_stored_messages: the log event of one joined result.
LogOf(r, relay) ==
    CASE r.err = "Ok" -> <<>>
      [] r.err = "DecryptionFailed" ->
             << [level |-> "debug", reason |-> r.err, node_id |-> relay.node_id] >>
      [] r.err = "PeerNotFound" ->
             << [level |-> "debug", reason |-> r.err, node_id |-> 0] >>
      [] OTHER ->
             << [level |-> "warn", reason |-> r.err, node_id |-> relay.node_id] >>

RECURSIVE LogsOf(_, _)
LogsOf(rs, relay) ==
    IF rs = <<>> THEN <<>> ELSE LogOf(Head(rs), relay) \o LogsOf(Tail(rs), relay)

\* The position in rs of the n-th successful result: 0 for n = 0, past the
\* end when rs has fewer.
PositionOfOk(rs, n) ==
    LET ok == { i \in 1..Len(rs) : rs[i].err = "Ok" } IN
    IF n = 0 THEN 0
    ELSE IF n > Cardinality(ok) THEN Len(rs) + 1
    ELSE CHOOSE i \in ok : Cardinality({ j \in ok : j <= i }) = n

\* handle_stored_messages: the results successful_msgs_iter goes over, and
\* logs, after its (n-1)-th item and before its n-th; the iterator is lazy.
PassedOver(rs, n) == SubSeq(rs, PositionOfOk(rs, n - 1) + 1, PositionOfOk(rs, n) - 1)

SuccessfulMut(rs) == IF \E i \in 1..Len(rs) : rs[i].err /= "Ok" THEN <<>> ELSE rs
\* handle_stored_messages: .filter(Result::is_ok).map(Result::unwrap)
Successful(rs) == SelectSeq(rs, LAMBDA r : r.err = "Ok")

JoinedResultMut(rs) ==
    LET bad == SelectSeq(rs, LAMBDA r : r.err /= "Ok") IN
    IF bad = <<>> THEN "Ok" ELSE "Err_" \o Head(bad).err
\* handle_stored_messages: the value returned once join_all and call_all are
\* through, whatever the per-entry results were.
JoinedResult(rs) == "Ok"

ResponseParseResultMut(parsed) == "Ok"
\* handle_stored_messages: StoredMessagesResponse::from_binary(&msg.body)?
ResponseParseResult(parsed) == IF parsed.ok THEN "Ok" ELSE "Err_InvalidEnvelopeBody"

\* ------------------------------------------------------------- actions
Set(t, r) == task' = [task EXCEPT ![t] = r]

\* MessageHandlerTask::new: a task is built for an inbound message.
Receive(t, Msgs) ==
    /\ task[t].pc = "idle"
    /\ \E m \in Msgs :
           Set(t, [IdleTask EXCEPT !.pc = "run", !.message = m])
    /\ UNCHANGED <<store, now, peer_manager, outbound>>

\* A response this node sent is carried on; the entries it holds reach the
\* response handler of this node in an envelope from this node that decrypts.
Relay(t) ==
    /\ task[t].pc = "idle"
    /\ outbound /= <<>>
    /\ Set(t, [IdleTask EXCEPT
                  !.pc = "run",
                  !.message = DecryptedDhtMessage("SAFStoredMessages", node_identity, FALSE,
                                                  ResponseBody(Head(outbound).messages)),
                  !.compiled_for = Head(outbound).to])
    /\ outbound' = Tail(outbound)
    /\ UNCHANGED <<store, now, peer_manager>>

\* The outbound channel delivers its first message to the transport.
Transmit ==
    /\ outbound /= <<>>
    /\ outbound' = Tail(outbound)
    /\ UNCHANGED <<store, now, peer_manager, task>>

\* run: the message is a DHT message that failed to decrypt.
Run_Discard(t) ==
    LET m == task[t].message IN
    /\ task[t].pc = "run"
    /\ ShouldDiscard(m)
    /\ Set(t, [task[t] EXCEPT
                  !.pc = "done", !.result = "Ok",
                  !.logs = << [level |-> "debug", reason |-> "Discard",
                               node_id |-> m.source_peer.node_id] >>])
    /\ UNCHANGED <<store, now, peer_manager, outbound>>

\* run -> handle_stored_messages_request, to the region check.
Run_Request(t) ==
    LET m == task[t].message
        retrieve_msgs == RequestFromBinary(m.body)
    IN
    /\ task[t].pc = "run"
    /\ ~ShouldDiscard(m)
    /\ Route(m.message_type) = "request"
    /\ IF m.decryption_failed
       THEN Set(t, [task[t] EXCEPT !.pc = "done", !.result = "panic",
                                   !.entered = "request"])
       ELSE IF ~retrieve_msgs.ok
       THEN Set(t, [task[t] EXCEPT !.pc = "done", !.result = "Err_InvalidEnvelopeBody",
                                   !.entered = "request"])
       ELSE \E region \in {"in", "out", "err"} :
                LET r == RegionResult(region) IN
                Set(t, [task[t] EXCEPT
                           !.pc = IF r.returns THEN "done" ELSE "req_lock",
                           !.result = r.result,
                           !.entered = "request",
                           !.region = region,
                           !.since = retrieve_msgs.since])
    /\ UNCHANGED <<store, now, peer_manager, outbound>>

RequestLockNoneMut(t) ==
    /\ task[t].pc = "req_lock"
    /\ Set(t, [task[t] EXCEPT !.pc = "req_filter"])
    /\ UNCHANGED <<store, now, peer_manager, outbound>>
\* handle_stored_messages_request: self.store.with_inner takes the lock of
\* the store; the task waits while another holds it.
Request_Lock(t) ==
    /\ task[t].pc = "req_lock"
    /\ LockFree
    /\ Set(t, [task[t] EXCEPT !.pc = "req_filter", !.holds_lock = TRUE])
    /\ UNCHANGED <<store, now, peer_manager, outbound>>

\* handle_stored_messages_request: inside the closure, the iterator chain
\* (filter, filter, take, cloned) goes over one more entry of the store.
Request_Scan(t) ==
    /\ task[t].pc = "req_filter"
    /\ task[t].cursor < Len(store)
    /\ Len(task[t].messages) < saf_max_returned_messages
    /\ Set(t, [task[t] EXCEPT
                  !.messages = @ \o CompileMessages(<< store[task[t].cursor + 1] >>, now,
                                                    task[t].since,
                                                    task[t].message.source_peer),
                  !.cursor = @ + 1])
    /\ UNCHANGED <<store, now, peer_manager, outbound>>

RequestFilterKeepLockMut(t) ==
    /\ task[t].pc = "req_filter"
    /\ Set(t, [task[t] EXCEPT
                  !.pc = "req_send",
                  !.messages = Take(@ \o CompileMessages(Rest(store, task[t].cursor), now,
                                                         task[t].since,
                                                         task[t].message.source_peer),
                                    saf_max_returned_messages),
                  !.cursor = 0,
                  !.reads = @ + 1])
    /\ store' = StoreIter(store, now)
    /\ UNCHANGED <<now, peer_manager, outbound>>
\* handle_stored_messages_request: the closure of self.store.with_inner(..)
\* goes over the entries of the store that are left, collects and returns,
\* which gives the lock back.  Iterating the store drops the entries that
\* have expired.
Request_Filter(t) ==
    /\ task[t].pc = "req_filter"
    /\ Set(t, [task[t] EXCEPT
                  !.pc = "req_send",
                  !.messages = Take(@ \o CompileMessages(Rest(store, task[t].cursor), now,
                                                         task[t].since,
                                                         task[t].message.source_peer),
                                    saf_max_returned_messages),
                  !.cursor = 0,
                  !.reads = @ + 1,
                  !.holds_lock = FALSE])
    /\ store' = StoreIter(store, now)
    /\ UNCHANGED <<now, peer_manager, outbound>>

RequestSendCallsNextMut(t) ==
    LET m == task[t].message
        reply == [to |-> m.source_peer, destination |-> Undisclosed,
                  encryption |-> "EncryptForDestination",
                  message_type |-> "SAFStoredMessages",
                  messages |-> task[t].messages]
    IN
    /\ task[t].pc = "req_send"
    /\ Len(outbound) < oms_capacity
    /\ outbound' = Append(outbound, reply)
    /\ Set(t, [task[t] EXCEPT !.pc = "done", !.result = SendResult(TRUE),
                              !.sent = Append(@, reply), !.calls = Append(@, m)])
    /\ UNCHANGED <<store, now, peer_manager>>
\* handle_stored_messages_request: outbound_service.send_message(..).await?
Request_Send(t) ==
    LET m == task[t].message
        reply == [to |-> m.source_peer, destination |-> Undisclosed,
                  encryption |-> "EncryptForDestination",
                  message_type |-> "SAFStoredMessages",
                  messages |-> task[t].messages]
    IN
    /\ task[t].pc = "req_send"
    /\ \/ /\ Len(outbound) < oms_capacity
          /\ outbound' = Append(outbound, reply)
          /\ Set(t, [task[t] EXCEPT !.pc = "done", !.result = SendResult(TRUE),
                                    !.sent = Append(@, reply)])
       \/ /\ outbound' = outbound
          /\ Set(t, [task[t] EXCEPT !.pc = "done", !.result = SendResult(FALSE)])
    /\ UNCHANGED <<store, now, peer_manager>>

\* run -> handle_stored_messages, to the creation of the per-entry tasks.
Run_Response(t) ==
    LET m == task[t].message
        response == ResponseFromBinary(m.body)
    IN
    /\ task[t].pc = "run"
    /\ ~ShouldDiscard(m)
    /\ Route(m.message_type) = "response"
    /\ IF m.decryption_failed
       THEN Set(t, [task[t] EXCEPT !.pc = "done", !.result = "panic",
                                   !.entered = "response"])
       ELSE IF ResponseParseResult(response) /= "Ok"
       THEN Set(t, [task[t] EXCEPT !.pc = "done",
                                   !.result = ResponseParseResult(response),
                                   !.entered = "response"])
       ELSE Set(t, [task[t] EXCEPT
                       !.pc = "resp_process",
                       !.entered = "response",
                       !.messages = response.messages,
                       !.results = [i \in 1..Len(response.messages) |-> Pending]])
    /\ UNCHANGED <<store, now, peer_manager, outbound>>

\* One blocking::run closure of handle_stored_messages completes.
Process_Entry(t, i) ==
    /\ task[t].pc = "resp_process"
    /\ i \in 1..Len(task[t].results)
    /\ task[t].results[i] = Pending
    /\ Set(t, [task[t] EXCEPT
                  !.results[i] = process_incoming_stored_message(
                                     node_identity, peer_manager, task[t].messages[i])])
    /\ UNCHANGED <<store, now, peer_manager, outbound>>

ResponseCollectEarlyMut(t) ==
    /\ task[t].pc = "resp_process"
    /\ \E i \in 1..Len(task[t].results) : task[t].results[i] /= Pending
    /\ Set(t, [task[t] EXCEPT
                  !.pc = "resp_forward",
                  !.successful = Successful(task[t].results)])
    /\ UNCHANGED <<store, now, peer_manager, outbound>>
\* handle_stored_messages: join_all(tasks) is ready; successful_msgs_iter, a
\* lazy iterator over the results, is given to call_all.  Nothing is logged
\* yet: the closure that logs runs as the iterator is pulled.
Response_Collect(t) ==
    /\ task[t].pc = "resp_process"
    /\ \A i \in 1..Len(task[t].results) : task[t].results[i] /= Pending
    /\ Set(t, [task[t] EXCEPT
                  !.pc = "resp_forward",
                  !.successful = Successful(task[t].results)])
    /\ UNCHANGED <<store, now, peer_manager, outbound>>

ForwardEntryAbortMut(t) ==
    LET i == task[t].forwarded + 1 IN
    /\ task[t].pc = "resp_forward"
    /\ i <= Len(task[t].successful)
    /\ \E answer \in {"Ok", "Err"} :
           Set(t, [task[t] EXCEPT
                      !.forwarded = IF answer = "Ok" THEN i ELSE Len(task[t].successful),
                      !.calls = Append(@, task[t].successful[i].msg),
                      !.logs = (@ \o LogsOf(PassedOver(task[t].results, i),
                                            task[t].message.source_peer))
                               \o IF answer = "Ok" THEN <<>>
                                  ELSE << [level |-> "error", reason |-> "NextService",
                                           node_id |-> 0] >>])
    /\ UNCHANGED <<store, now, peer_manager, outbound>>
\* handle_stored_messages: call_all pulls the iterator, which logs the failed
\* results it goes over and yields the next successful message; next_service
\* is called with it and the call answers.
Forward_Entry(t) ==
    LET i == task[t].forwarded + 1 IN
    /\ task[t].pc = "resp_forward"
    /\ i <= Len(task[t].successful)
    /\ \E answer \in {"Ok", "Err"} :
           Set(t, [task[t] EXCEPT
                      !.forwarded = i,
                      !.calls = Append(@, task[t].successful[i].msg),
                      !.logs = (@ \o LogsOf(PassedOver(task[t].results, i),
                                            task[t].message.source_peer))
                               \o IF answer = "Ok" THEN <<>>
                                  ELSE << [level |-> "error", reason |-> "NextService",
                                           node_id |-> 0] >>])
    /\ UNCHANGED <<store, now, peer_manager, outbound>>

\* handle_stored_messages: call_all pulls the iterator to its end, which logs
\* the failed results that are left; the stream is exhausted, Ok(()).
Response_Done(t) ==
    /\ task[t].pc = "resp_forward"
    /\ task[t].forwarded = Len(task[t].successful)
    /\ Set(t, [task[t] EXCEPT
                  !.pc = "done",
                  !.result = JoinedResult(task[t].results),
                  !.logs = @ \o LogsOf(PassedOver(task[t].results, task[t].forwarded + 1),
                                       task[t].message.source_peer)])
    /\ UNCHANGED <<store, now, peer_manager, outbound>>

\* run: not a SAF message, self.next_service.oneshot(message).await?
Run_Passthrough(t) ==
    LET m == task[t].message IN
    /\ task[t].pc = "run"
    /\ ~ShouldDiscard(m)
    /\ Route(m.message_type) = "next"
    /\ \E answer \in {"Ok", "Err_Middleware"} :
           Set(t, [task[t] EXCEPT !.pc = "done", !.result = answer,
                                  !.calls = Append(@, m)])
    /\ UNCHANGED <<store, now, peer_manager, outbound>>

\* The task has run and is dropped.
Finish(t) ==
    /\ task[t].pc = "done"
    /\ Set(t, IdleTask)
    /\ UNCHANGED <<store, now, peer_manager, outbound>>

\* The storage producer inserts a message it keeps for another peer, with a
\* time to live; a time to live of 0 makes an entry that is expired at once.
Insert(inserts) ==
    /\ LockFree
    /\ \E m \in StoredPool(now), ttl \in 0..1 :
           /\ <<m.payload, ttl>> \in inserts
           /\ store' = StoreInsert(store, m.payload, m, ttl, now)
    /\ UNCHANGED <<now, peer_manager, outbound, task>>

\* Time passes.
Tick ==
    /\ now < MaxTime
    /\ now' = now + 1
    /\ UNCHANGED <<store, peer_manager, outbound, task>>

\* peer_manager.add_peer
AddPeer ==
    /\ \E k \in Keys : k \notin peer_manager /\ peer_manager' = peer_manager \cup {k}
    /\ UNCHANGED <<store, now, outbound, task>>

Init ==
    /\ store = <<>>
    /\ now = 0
    /\ peer_manager = {}
    /\ outbound = <<>>
    /\ task = [t \in {1} |-> IdleTask]

MessagesOfType(types) == { m \in InboundMessages : m.message_type \in types }

\* The request side: the storage producer, the clock and the requests.
NextRequest ==
    \/ Insert({<<"A", 1>>, <<"B", 0>>, <<"B", 1>>, <<"C", 1>>})
    \/ Tick
    \/ Transmit
    \/ \E t \in Tasks : Receive(t, MessagesOfType({"SAFRequestMessages"}))
    \/ \E t \in Tasks : Run_Discard(t)
    \/ \E t \in Tasks : Run_Request(t)
    \/ \E t \in Tasks : Request_Lock(t)
    \/ \E t \in Tasks : Request_Filter(t)
    \/ \E t \in Tasks : Request_Send(t)
    \/ \E t \in Tasks : Finish(t)

SpecRequest == Init /\ [][NextRequest]_vars

\* The response side: the peer directory and the responses of relays.
NextResponse ==
    \/ AddPeer
    \/ \E t \in Tasks : Receive(t, MessagesOfType({"SAFStoredMessages"}))
    \/ \E t \in Tasks : Run_Discard(t)
    \/ \E t \in Tasks : Run_Response(t)
    \/ \E t \in Tasks, i \in 1..MaxEntries : Process_Entry(t, i)
    \/ \E t \in Tasks : Response_Collect(t)
    \/ \E t \in Tasks : Forward_Entry(t)
    \/ \E t \in Tasks : Response_Done(t)
    \/ \E t \in Tasks : Finish(t)

SpecResponse == Init /\ [][NextResponse]_vars

\* The whole stage: messages of every type; the responses with entries are
\* those this node sent, coming back to its response handler.
DispatchMessages ==
    { m \in InboundMessages :
          /\ m.body.kind = "request" => m.body.since = None
          /\ m.body.entries = <<>> }

Next ==
    \/ Insert({"A", "B", "C", "H", "S"} \X {1})
    \/ AddPeer
    \/ Transmit
    \/ \E t \in Tasks : Receive(t, DispatchMessages)
    \/ \E t \in Tasks : Relay(t)
    \/ \E t \in Tasks : Run_Discard(t)
    \/ \E t \in Tasks : Run_Request(t)
    \/ \E t \in Tasks : Request_Lock(t)
    \/ \E t \in Tasks : Request_Filter(t)
    \/ \E t \in Tasks : Request_Send(t)
    \/ \E t \in Tasks : Run_Response(t)
    \/ \E t \in Tasks, i \in 1..MaxEntries : Process_Entry(t, i)
    \/ \E t \in Tasks : Response_Collect(t)
    \/ \E t \in Tasks : Forward_Entry(t)
    \/ \E t \in Tasks : Response_Done(t)
    \/ \E t \in Tasks : Run_Passthrough(t)
    \/ \E t \in Tasks : Finish(t)

Spec == Init /\ [][Next]_vars

\* Two handler tasks at once: the pipeline spawns a task per inbound message,
\* here for the well-formed requests, beside the storage producer.
TaskIds == 1..2
ConcurrentMessages ==
    { m \in MessagesOfType({"SAFRequestMessages"}) :
          ~m.decryption_failed /\ m.body = RequestBody(None) }
ConcurrentInserts == {"A", "B", "C"} \X {1}

InitConcurrent ==
    /\ store = <<>>
    /\ now = 0
    /\ peer_manager = {}
    /\ outbound = <<>>
    /\ task = [t \in TaskIds |-> IdleTask]

NextConcurrent ==
    \/ Insert(ConcurrentInserts)
    \/ Transmit
    \/ \E t \in Tasks : Receive(t, ConcurrentMessages)
    \/ \E t \in Tasks : Run_Request(t)
    \/ \E t \in Tasks : Request_Lock(t)
    \/ \E t \in Tasks : Request_Scan(t)
    \/ \E t \in Tasks : Request_Filter(t)
    \/ \E t \in Tasks : Request_Send(t)
    \/ \E t \in Tasks : Finish(t)

SpecConcurrent == InitConcurrent /\ [][NextConcurrent]_vars

\* ------------------------------------------------------------- claims
SafTypes == {"SAFRequestMessages", "SAFStoredMessages"}
Range(f) == { f[i] : i \in DOMAIN f }
Min(a, b) == IF a < b THEN a ELSE b

\* The positions of the store whose entry a requester asking with `since` is
\* to receive at time t: unexpired, not older than since, addressed to it.
Eligible(s, t, since, requester) ==
    { i \in 1..Len(s) :
        /\ t < s[i].expiry
        /\ (since = None \/ s[i].msg.stored_at >= since)
        /\ \/ s[i].msg.destination = Undisclosed
           \/ s[i].msg.destination = PublicKey(requester.public_key)
           \/ s[i].msg.destination = NodeId(requester.node_id) }

\* C1: every entry of the response compiled for an in-region requester is a
\* store entry that has not expired, is not older than request.since and is
\* addressed to the requester; the response has min(number of such entries,
\* saf_max_returned_messages) entries; and that response is what is sent.
C1_ResponseIsFilteredStore ==
    [][\A t \in Tasks :
          /\ (task[t].pc = "req_filter" /\ task'[t].pc = "req_send") =>
                LET el == Eligible(store, now, task[t].since, task[t].message.source_peer)
                    response == task'[t].messages
                IN  /\ \A j \in 1..Len(response) :
                           \E i \in el : store[i].msg = response[j]
                    /\ \A j, k \in 1..Len(response) :
                           response[j] = response[k] => j = k
                    /\ Len(response) = Min(Cardinality(el), saf_max_returned_messages)
          /\ (task[t].pc = "req_send" /\ task'[t].pc = "done" /\ task'[t].result = "Ok") =>
                /\ Len(task'[t].sent) = 1
                /\ task'[t].sent[1].messages = task[t].messages
                /\ task'[t].sent[1].to = task[t].message.source_peer
      ]_vars

\* C1 witness: a response was cut to saf_max_returned_messages entries while
\* the store holds more entries for the requester.
C1_Witness ==
    \E t \in Tasks :
        /\ task[t].pc = "req_send"
        /\ Len(task[t].messages) = saf_max_returned_messages
        /\ Cardinality(Eligible(store, now, task[t].since, task[t].message.source_peer))
               > saf_max_returned_messages
        /\ task[t].since /= None

\* C2: a well-formed request from a requester outside this node's region ends
\* the run with success: nothing is sent, the next service is not called, the
\* store is neither read nor changed.
C2_OutOfRegionNoEffect ==
    [][\A t \in Tasks :
          (task[t].pc = "run" /\ task'[t].region = "out") =>
              /\ task'[t].pc = "done"
              /\ task'[t].result = "Ok"
              /\ task'[t].sent = <<>>
              /\ task'[t].calls = <<>>
              /\ task'[t].reads = 0
              /\ store' = store
              /\ outbound' = outbound
      ]_vars

\* C2 witness: a request was refused for its region while the store holds an
\* unexpired entry addressed to the requester.
C2_Witness ==
    \E t \in Tasks :
        /\ task[t].pc = "done"
        /\ task[t].region = "out"
        /\ Eligible(store, now, task[t].since, task[t].message.source_peer) /= {}

RequestDone(t) ==
    /\ task[t].pc = "done"
    /\ task[t].message.message_type = "SAFRequestMessages"
    /\ ~task[t].message.decryption_failed

\* C9 as stated: the request handler fails only with InvalidEnvelopeBody (the
\* body does not parse), StoreUnavailable or OutboundFailed, and succeeds
\* whatever the region lookup answers.
C9_Original ==
    \A t \in Tasks :
        RequestDone(t) =>
            /\ task[t].result \in {"Ok", "Err_InvalidEnvelopeBody",
                                   "Err_StoreUnavailable", "Err_OutboundFailed"}
            /\ task[t].result = "Err_InvalidEnvelopeBody" <=>
                   task[t].message.body.kind /= "request"
            /\ task[t].region \in {"out", "err"} => task[t].result = "Ok"

\* C9 amended: the request handler fails exactly when the body does not parse
\* (InvalidEnvelopeBody), when the region lookup itself fails (the
\* PeerManagerError is returned) or when the send fails (OutboundFailed); a
\* region refusal and a served request succeed; reading the store cannot fail.
C9_RequestErrors ==
    \A t \in Tasks :
        RequestDone(t) =>
            /\ task[t].result \in {"Ok", "Err_InvalidEnvelopeBody",
                                   "Err_PeerManagerError", "Err_OutboundFailed"}
            /\ task[t].result = "Err_InvalidEnvelopeBody" <=>
                   task[t].message.body.kind /= "request"
            /\ task[t].result = "Err_PeerManagerError" <=> task[t].region = "err"
            /\ task[t].result = "Err_OutboundFailed" <=>
                   (task[t].region = "in" /\ task[t].sent = <<>>)
            /\ task[t].region = "out" => task[t].result = "Ok"

\* C9 witness: a request whose region lookup failed.
C9_Witness ==
    \E t \in Tasks : RequestDone(t) /\ task[t].result = "Err_PeerManagerError"

\* What the four checks of an entry come to at this node, stated on the entry.
DestinationIsSelf(m) ==
    \/ m.destination = Undisclosed
    \/ m.destination = PublicKey(node_identity.public_key)
    \/ m.destination = NodeId(node_identity.node_id)
Decrypts(m) == m.cipher_ok /\ m.enc_for = node_identity.public_key /\ m.inner_ok

\* The process task of entry i of task t completes in this step.
Processed(t, i) ==
    /\ i \in DOMAIN task[t].results
    /\ i \in DOMAIN task'[t].results
    /\ task[t].results[i] = Pending
    /\ task'[t].results[i] /= Pending

CallsWith(t, p) == { j \in 1..Len(task[t].calls) : task[t].calls[j].body.payload = p }
OkWith(t, p) ==
    { i \in 1..Len(task[t].results) :
        task[t].results[i].err = "Ok" /\ task[t].messages[i].payload = p }
Payloads == { m.payload : m \in RelayPool }

ResponseTask(t) ==
    /\ task[t].message.message_type = "SAFStoredMessages"
    /\ task[t].entered = "response"

\* C3: an entry of a received response is passed to the next service iff its
\* destination is this node, its signature verifies, it decrypts to a Message
\* and its origin peer is in the peer directory; no entry is passed twice.
C3_ForwardedIffValid ==
    [][\A t \in Tasks :
          /\ \A i \in DOMAIN task[t].results :
                 Processed(t, i) =>
                     LET m == task[t].messages[i] IN
                     task'[t].results[i].err = "Ok" <=>
                         /\ DestinationIsSelf(m)
                         /\ m.sig_valid
                         /\ Decrypts(m)
                         /\ m.origin_public_key \in peer_manager
          /\ ResponseTask(t) =>
                 /\ Len(task[t].calls) <= Len(task[t].messages)
                 /\ \A p \in Payloads :
                        /\ Cardinality(CallsWith(t, p)) <= Cardinality(OkWith(t, p))
                        /\ task[t].pc = "done" =>
                               Cardinality(CallsWith(t, p)) = Cardinality(OkWith(t, p))
      ]_vars

\* C3 witness: a response of two entries was handled, one entry went to the
\* next service and the other did not.
C3_Witness ==
    \E t \in Tasks :
        /\ ResponseTask(t)
        /\ task[t].pc = "done"
        /\ Len(task[t].messages) = 2
        /\ Len(task[t].calls) = 1

\* C4: a message that is neither SAFRequestMessages nor SAFStoredMessages,
\* decrypted or not, is passed to the next service exactly once and unchanged,
\* nothing is sent and the store is not touched.
C4_NonSafIdentity ==
    \A t \in Tasks :
        (task[t].pc = "done" /\ task[t].message.message_type \notin SafTypes) =>
            /\ Len(task[t].calls) = 1
            /\ task[t].calls[1] = task[t].message
            /\ task[t].sent = <<>>
            /\ task[t].reads = 0

UnreadableSaf(t) ==
    /\ task[t].message.message_type \in SafTypes
    /\ task[t].message.decryption_failed

\* C5: a SAF message that failed to decrypt is dropped by run: success, no
\* sub-handler is entered (so none can panic), the next service is not
\* called, nothing is sent, the store is untouched.
C5_UnreadableSafDropped ==
    [][\A t \in Tasks :
          /\ task[t].result /= "panic"
          /\ (UnreadableSaf(t) /\ task[t].pc = "run" /\ task'[t] /= task[t]) =>
                 /\ task'[t].pc = "done"
                 /\ task'[t].result = "Ok"
                 /\ task'[t].entered = "none"
                 /\ task'[t].calls = <<>>
                 /\ task'[t].sent = <<>>
                 /\ task'[t].reads = 0
                 /\ store' = store
                 /\ outbound' = outbound
      ]_vars

\* C5 witness: an unreadable SAFStoredMessages was dropped while the store
\* held messages.
C5_Witness ==
    \E t \in Tasks :
        /\ UnreadableSaf(t)
        /\ task[t].message.message_type = "SAFStoredMessages"
        /\ task[t].pc = "done"
        /\ store /= <<>>

\* A response this node compiled has come back to its response handler.
Relayed(t) == task[t].compiled_for /= NoPeer
\* The node an entry was addressed and encrypted to is this node.
IntendedForSelf(m) == m.enc_for = node_identity.public_key

\* C6 as stated: a message the request handler put in a response is delivered
\* to the next service by the response handler of its intended recipient and
\* is dropped with InvalidDestination by any other node.
C6_Original ==
    \A t \in Tasks :
        (Relayed(t) /\ task[t].pc = "done") =>
            \A i \in 1..Len(task[t].messages) :
                IF IntendedForSelf(task[t].messages[i])
                THEN /\ task[t].results[i].err = "Ok"
                     /\ task[t].results[i].msg \in Range(task[t].calls)
                ELSE task[t].results[i].err = "InvalidDestination"

\* C6 amended: at its intended recipient such a message passes the destination
\* check, and it is delivered to the next service iff its origin signature
\* verifies, its body decrypts to a Message and the recipient's peer directory
\* knows the origin peer; at any other node it is dropped, with
\* InvalidDestination when its destination names a public key or a node id,
\* and after the destination check (InvalidSignature, else DecryptionFailed)
\* when it is Undisclosed.
C6_RoundTrip ==
    [][\A t \in Tasks :
          /\ \A i \in DOMAIN task[t].results :
                 (Relayed(t) /\ Processed(t, i)) =>
                     LET m == task[t].messages[i]
                         r == task'[t].results[i].err
                     IN  IF IntendedForSelf(m)
                         THEN /\ r /= "InvalidDestination"
                              /\ r = "Ok" <=>
                                     /\ m.sig_valid
                                     /\ Decrypts(m)
                                     /\ m.origin_public_key \in peer_manager
                         ELSE r = IF m.destination /= Undisclosed THEN "InvalidDestination"
                                  ELSE IF ~m.sig_valid THEN "InvalidSignature"
                                  ELSE "DecryptionFailed"
          /\ (Relayed(t) /\ task[t].pc = "done") =>
                 \A i \in 1..Len(task[t].messages) :
                     task[t].results[i].err = "Ok" <=>
                         \E j \in 1..Len(task[t].calls) :
                             /\ task[t].calls[j].body.payload = task[t].messages[i].payload
                             /\ task[t].calls[j].source_peer =
                                    Peer(task[t].messages[i].origin_public_key)
      ]_vars

\* C6 witness: a message compiled by the request handler was delivered to the
\* next service by the response handler.
C6_Witness ==
    \E t \in Tasks :
        /\ Relayed(t)
        /\ task[t].pc = "done"
        /\ task[t].calls /= <<>>

ParsedResponse(t) ==
    /\ task[t].message.message_type = "SAFStoredMessages"
    /\ ~task[t].message.decryption_failed
    /\ task[t].message.body.kind = "response"

\* C7: once the body of a response has parsed, the handler returns success
\* after every entry was processed, whatever the per-entry results; a failing
\* entry keeps no successful entry from the next service.
C7_EntryFailuresAbsorbed ==
    \A t \in Tasks :
        (ParsedResponse(t) /\ task[t].pc = "done") =>
            /\ task[t].result = "Ok"
            /\ Len(task[t].results) = Len(task[t].message.body.entries)
            /\ \A i \in 1..Len(task[t].results) :
                   /\ task[t].results[i] /= Pending
                   /\ task[t].results[i].err = "Ok" =>
                          task[t].results[i].msg \in Range(task[t].calls)

\* C7 witness: a response with a failed entry first and a successful entry
\* after it was handled.
C7_Witness ==
    \E t \in Tasks :
        /\ ParsedResponse(t)
        /\ task[t].pc = "done"
        /\ Len(task[t].results) = 2
        /\ task[t].results[1].err \notin {"Ok", "pending"}
        /\ task[t].results[2].err = "Ok"

\* C8: handling a SAFStoredMessages fails only when the decrypted body is no
\* StoredMessagesResponse: then run returns InvalidEnvelopeBody, with no call
\* of the next service and nothing sent; in every other case it returns Ok.
C8_OnlyParseFailureSurfaces ==
    \A t \in Tasks :
        (task[t].message.message_type = "SAFStoredMessages" /\ task[t].pc = "done") =>
            LET unparsed == /\ ~task[t].message.decryption_failed
                            /\ task[t].message.body.kind /= "response"
            IN  /\ unparsed =>
                       /\ task[t].result = "Err_InvalidEnvelopeBody"
                       /\ task[t].calls = <<>>
                       /\ task[t].sent = <<>>
                /\ ~unparsed => task[t].result = "Ok"

\* C8 witness: a response whose body did not parse.
C8_Witness ==
    \E t \in Tasks :
        /\ task[t].message.message_type = "SAFStoredMessages"
        /\ task[t].pc = "done"
        /\ task[t].result = "Err_InvalidEnvelopeBody"

\* The SAF sub-handler task t entered has failed.
SubHandlerFailed(t) ==
    \/ /\ task[t].entered = "request"
       /\ \/ task[t].message.body.kind /= "request"
          \/ task[t].region = "err"
          \/ (task[t].region = "in" /\ task[t].sent = <<>>)
    \/ /\ task[t].entered = "response"
       /\ task[t].message.body.kind /= "response"

\* C10: when a SAF sub-handler fails, run returns its error, and the inbound
\* SAF message itself is never passed to the next service, whether the
\* sub-handler fails or succeeds.
C10_SafNeverFallsThrough ==
    \A t \in Tasks :
        task[t].message.message_type \in SafTypes =>
            /\ task[t].message \notin Range(task[t].calls)
            /\ (task[t].pc = "done" /\ SubHandlerFailed(t)) =>
                   /\ task[t].result \in {"Err_InvalidEnvelopeBody", "Err_PeerManagerError",
                                          "Err_OutboundFailed"}
                   /\ task[t].calls = <<>>
            /\ (task[t].pc = "done" /\ ~SubHandlerFailed(t)) => task[t].result = "Ok"

\* C10 witness: a response handler that failed, and a response handler that
\* passed entries on, both without the envelope going downstream.
C10_Witness ==
    \E t \in Tasks :
        /\ task[t].message.message_type = "SAFStoredMessages"
        /\ task[t].pc = "done"
        /\ SubHandlerFailed(t)
        /\ task[t].result = "Err_InvalidEnvelopeBody"

\* A well-formed request of an in-region requester has been handled.
InRegionRequestDone(t) ==
    /\ RequestDone(t)
    /\ task[t].message.body.kind = "request"
    /\ task[t].region = "in"

\* Every entry of store s is older than since.
SinceBeyondStore(s, since) ==
    since /= None /\ \A i \in 1..Len(s) : s[i].msg.stored_at < since

\* C11 as stated: a request emits at most one reply; a well-formed request of
\* an in-region requester emits exactly one reply, whatever the send answers.
C11_Original ==
    \A t \in Tasks :
        /\ Len(task[t].sent) <= 1
        /\ InRegionRequestDone(t) => Len(task[t].sent) = 1

\* C11 amended: a request emits at most one SAFStoredMessages reply, and only
\* once the store has been filtered; a well-formed request of an in-region
\* requester emits exactly one reply, carrying the filtered list (the empty
\* list when since is beyond every stored entry), unless the outbound send
\* fails: then no reply is emitted and the handler fails with OutboundFailed.
C11_OneReplyAfterFilter ==
    [][\A t \in Tasks :
          /\ Len(task'[t].sent) <= 1
          /\ (task'[t].sent /= task[t].sent /\ task'[t].sent /= <<>>) =>
                 /\ task[t].pc = "req_send"
                 /\ task[t].reads = 1
                 /\ task[t].sent = <<>>
                 /\ task'[t].sent[1].message_type = "SAFStoredMessages"
                 /\ task'[t].sent[1].messages = task[t].messages
                 /\ outbound' = Append(outbound, task'[t].sent[1])
          /\ (task[t].pc = "req_filter" /\ task'[t].pc = "req_send"
                  /\ SinceBeyondStore(store, task[t].since)) =>
                 task'[t].messages = <<>>
          /\ (task[t].pc = "req_send" /\ task'[t].pc = "done") =>
                 \/ /\ Len(task'[t].sent) = 1
                    /\ task'[t].result = "Ok"
                 \/ /\ task'[t].sent = <<>>
                    /\ task'[t].result = "Err_OutboundFailed"
                    /\ outbound' = outbound
          /\ (task[t].pc = "run" /\ task'[t].pc = "done") => task'[t].sent = <<>>
      ]_vars

\* C11 witness: a request whose since lies in the future was answered with one
\* reply carrying the empty list, while the store holds entries for the
\* requester.
C11_Witness ==
    \E t \in Tasks :
        /\ InRegionRequestDone(t)
        /\ task[t].since /= None
        /\ now < task[t].since
        /\ Eligible(store, now, None, task[t].message.source_peer) /= {}
        /\ Len(task[t].sent) = 1
        /\ task[t].sent[1].messages = <<>>

\* The downstream errors task t has logged.
DownstreamErrors(t) ==
    { j \in 1..Len(task[t].logs) : task[t].logs[j].level = "error" }
\* The messages of the entries of task t whose process task succeeded, in order.
ProcessedOk(t) ==
    LET ok == SelectSeq(task[t].results, LAMBDA r : r.err = "Ok")
    IN  [i \in 1..Len(ok) |-> ok[i].msg]

\* C12: after the next service answered a forwarded entry with an error, the
\* handler goes on: every successfully processed entry of the response is
\* passed to the next service exactly once and the handler returns success.
C12_DownstreamErrorKeepsBatch ==
    \A t \in Tasks :
        (ResponseTask(t) /\ DownstreamErrors(t) /= {}) =>
            /\ task[t].pc \in {"resp_forward", "done"}
            /\ Len(task[t].calls) <= Len(ProcessedOk(t))
            /\ task[t].calls = SubSeq(ProcessedOk(t), 1, Len(task[t].calls))
            /\ Cardinality(DownstreamErrors(t)) <= Len(task[t].calls)
            /\ task[t].pc = "done" =>
                   /\ task[t].calls = ProcessedOk(t)
                   /\ task[t].result = "Ok"

\* C12 witness: the next service answered the first of two forwarded entries
\* with an error and the second entry was passed to it all the same.
C12_Witness ==
    \E t \in Tasks :
        /\ ResponseTask(t)
        /\ task[t].pc = "done"
        /\ Len(task[t].calls) = 2
        /\ Cardinality(DownstreamErrors(t)) = 2

\* Task t takes a step of the handling of a SAFRequestMessages.
RequestStep(t) ==
    /\ task'[t] /= task[t]
    /\ task[t].pc /= "idle"
    /\ task[t].message.message_type = "SAFRequestMessages"

\* C13: the handling of a SAFRequestMessages never calls the next service,
\* whether the request is served, refused for its region or fails; a step of
\* it leaves the peer directory and the unexpired contents of the store as
\* they were, and changes the outbound channel only by the one reply of a
\* served request, addressed to the requester.
C13_RequestOnlyReplies ==
    [][\A t \in Tasks :
          /\ task[t].message.message_type = "SAFRequestMessages" =>
                 task[t].calls = <<>>
          /\ RequestStep(t) =>
                 /\ peer_manager' = peer_manager
                 /\ now' = now
                 /\ StoreIter(store', now) = StoreIter(store, now)
                 /\ \/ outbound' = outbound
                    \/ /\ task[t].pc = "req_send"
                       /\ task[t].sent = <<>>
                       /\ task'[t].result = "Ok"
                       /\ Len(task'[t].sent) = 1
                       /\ task'[t].sent[1].to = task[t].message.source_peer
                       /\ task'[t].sent[1].message_type = "SAFStoredMessages"
                       /\ outbound' = Append(outbound, task'[t].sent[1])
      ]_vars

\* C13 witness: a request of peer 2 was served from a store that holds
\* messages: one reply to peer 2 is on the outbound channel, the next service
\* was not called.
C13_Witness ==
    \E t \in Tasks :
        /\ InRegionRequestDone(t)
        /\ task[t].result = "Ok"
        /\ task[t].message.source_peer = Peer(2)
        /\ task[t].messages /= <<>>
        /\ outbound = task[t].sent
        /\ task[t].calls = <<>>

\* The handler of a parsed response has gone through all results and returned.
Collected(t) == ParsedResponse(t) /\ task[t].pc = "done"

\* The entries of task t that fail the destination or the signature check.
Misbehaving(t) ==
    { i \in 1..Len(task[t].messages) :
        ~DestinationIsSelf(task[t].messages[i]) \/ ~task[t].messages[i].sig_valid }

\* The SECURITY event the relay of task t earns with entry m.
SecurityEvent(t, m) ==
    [level |-> "warn",
     reason |-> IF ~DestinationIsSelf(m) THEN "InvalidDestination" ELSE "InvalidSignature",
     node_id |-> task[t].message.source_peer.node_id]

\* C14: every entry of a response that fails the destination check or the
\* signature check gives exactly one warn SECURITY event naming the node id
\* of the relay and no call of the next service, and the handler returns
\* success.
C14_MisbehaviourIsWarned ==
    \A t \in Tasks :
        Collected(t) =>
            LET bad == SelectSeq(task[t].messages,
                                 LAMBDA m : ~DestinationIsSelf(m) \/ ~m.sig_valid)
                warns == SelectSeq(task[t].logs, LAMBDA l : l.level = "warn")
            IN  /\ warns = [k \in 1..Len(bad) |-> SecurityEvent(t, bad[k])]
                /\ \A i \in Misbehaving(t) :
                       CallsWith(t, task[t].messages[i].payload) = {}
                /\ task[t].pc = "done" => task[t].result = "Ok"

\* C14 witness: relay 2 sent an entry with a wrong destination and an entry
\* with a bad signature; two SECURITY events were logged, nothing was passed on.
C14_Witness ==
    \E t \in Tasks :
        /\ Collected(t)
        /\ task[t].pc = "done"
        /\ task[t].message.source_peer = Peer(2)
        /\ Len(task[t].messages) = 2
        /\ ~DestinationIsSelf(task[t].messages[1])
        /\ DestinationIsSelf(task[t].messages[2])
        /\ ~task[t].messages[2].sig_valid
        /\ Len(SelectSeq(task[t].logs, LAMBDA l : l.level = "warn")) = 2
        /\ task[t].calls = <<>>

\* Entry m passes the destination check and the signature check of this node.
PassesChecks(m) == DestinationIsSelf(m) /\ m.sig_valid

\* What an entry that passes both checks and is not delivered comes to: it
\* does not decrypt to a Message, or else its origin peer is not known.
Expected(m) == IF ~Decrypts(m) THEN "DecryptionFailed" ELSE "PeerNotFound"

\* The debug event of an expected failure; only a failed decryption names
\* the relay.
DebugEvent(t, m) ==
    [level |-> "debug", reason |-> Expected(m),
     node_id |-> IF ~Decrypts(m) THEN task[t].message.source_peer.node_id ELSE 0]

C16_Original ==
    \A i \in 1..Len(store) : now < store[i].expiry

\* Task t iterates the store in this step.
Iterates(t) == task[t].pc = "req_filter" /\ task'[t].pc = "req_send"

\* C16 amended: expiry is lazy.  The store may hold entries with
\* expiry <= now (an entry inserted with a time to live of zero is one at
\* once) until an iteration drops them; an iteration yields no such entry
\* and leaves only entries with now < expiry in the store, the unexpired
\* ones as they were.
C16_ExpiredNeverYielded ==
    [][\A t \in Tasks :
          Iterates(t) =>
              /\ \A j \in 1..Len(task'[t].messages) :
                     \E i \in 1..Len(store) :
                         /\ store[i].msg = task'[t].messages[j]
                         /\ now < store[i].expiry
              /\ \A i \in 1..Len(store') : now < store'[i].expiry
              /\ store' = SelectSeq(store, LAMBDA e : now < e.expiry)
      ]_vars

\* C16 witness: a request without since is about to iterate a store that
\* holds an entry for the requester inserted with a time to live of zero.
C16_Witness ==
    \E t \in Tasks :
        /\ task[t].pc = "req_filter"
        /\ task[t].since = None
        /\ \E i \in 1..Len(store) :
               /\ store[i].expiry = store[i].msg.stored_at
               /\ store[i].msg.stored_at = now
               /\ store[i].msg.destination = PublicKey(task[t].message.source_peer.public_key)

\* The storage producer inserts in this step.
Inserts == store' /= store /\ task' = task

\* C17: the store never holds more than store_capacity entries, and no key
\* twice; an insert of a key the store holds replaces that entry and leaves
\* the size as it was; an insert of a new key into a full store evicts one
\* entry with the oldest stored_at; iterations only remove entries.
C17_StoreWithinCapacity ==
    [][/\ Len(store) <= store_capacity
       /\ Len(store') <= store_capacity
       /\ Cardinality(KeysOf(store')) = Len(store')
       /\ Inserts =>
              /\ KeysOf(store') = KeysOf(store) => Len(store') = Len(store)
              /\ (KeysOf(store') /= KeysOf(store) /\ Len(store) < store_capacity) =>
                     /\ Len(store') = Len(store) + 1
                     /\ KeysOf(store) \subseteq KeysOf(store')
              /\ (KeysOf(store') /= KeysOf(store) /\ Len(store) = store_capacity) =>
                     /\ Len(store') = store_capacity
                     /\ \E i \in 1..Len(store) :
                            /\ KeysOf(store) \ KeysOf(store') = {store[i].key}
                            /\ \A j \in 1..Len(store) :
                                   store[i].msg.stored_at <= store[j].msg.stored_at
       /\ ~Inserts => Len(store') <= Len(store)
      ]_vars

\* C17 witness: a full store in which an entry stored at time 1 stands before
\* an entry stored at time 0: a key the store held was inserted again and the
\* size stayed at store_capacity.
C17_Witness ==
    /\ Len(store) = store_capacity
    /\ KeysOf(store) /= {"A", "B"}
    /\ \E i, j \in 1..Len(store) :
           /\ store[i].msg.stored_at = 0
           /\ store[j].msg.stored_at = 1
           /\ i > j

\* The calls of a process task, in the order of the closure.
CheckOrder == <<"check_destination", "check_signature", "try_decrypt", "find_with_public_key">>

\* C18: a process task makes its checks in the order destination, signature,
\* decryption, peer lookup and stops at the first that fails; its result is
\* the error of that check.  A wrong destination is InvalidDestination
\* whatever the signature; an entry with a bad signature is not decrypted;
\* the peer directory is consulted only for an entry that decrypted.
C18_ChecksInOrder ==
    [][\A t \in Tasks : \A i \in DOMAIN task[t].results :
          Processed(t, i) =>
              LET m == task[t].messages[i]
                  r == task'[t].results[i]
                  n == Len(r.ran)
                  passes == << DestinationIsSelf(m), m.sig_valid, Decrypts(m),
                               m.origin_public_key \in peer_manager >>
                  errors == << "InvalidDestination", "InvalidSignature",
                               "DecryptionFailed", "PeerNotFound" >>
              IN  /\ n \in 1..4
                  /\ r.ran = SubSeq(CheckOrder, 1, n)
                  /\ \A k \in 1..(n - 1) : passes[k]
                  /\ IF passes[n] THEN n = 4 /\ r.err = "Ok"
                     ELSE r.err = errors[n]
      ]_vars

\* C18 witness: an entry with a wrong destination and a bad signature was
\* processed: InvalidDestination, and only the destination check ran; beside
\* it an entry with a bad signature that stopped before decryption.
C18_Witness ==
    \E t \in Tasks :
        /\ ResponseTask(t)
        /\ Len(task[t].results) = 2
        /\ ~DestinationIsSelf(task[t].messages[1])
        /\ ~task[t].messages[1].sig_valid
        /\ task[t].results[1].err = "InvalidDestination"
        /\ task[t].results[1].ran = <<"check_destination">>
        /\ task[t].results[2].err = "InvalidSignature"
        /\ task[t].results[2].ran = <<"check_destination", "check_signature">>

\* C19: a message the response handler passes to the next service stands for
\* an entry of the response that was processed with success: its source peer
\* is the peer the directory holds under the entry's origin_public_key,
\* whoever the relay of the envelope is, and its body is the inner Message the
\* entry decrypts to.
C19_DeliveredFromOrigin ==
    \A t \in Tasks :
        ResponseTask(t) =>
            \A j \in 1..Len(task[t].calls) :
                LET call == task[t].calls[j] IN
                /\ ~call.decryption_failed
                /\ call /= task[t].message
                /\ \E i \in 1..Len(task[t].messages) :
                       LET m == task[t].messages[i] IN
                       /\ task[t].results[i].err = "Ok"
                       /\ m.origin_public_key \in peer_manager
                       /\ call.source_peer = Peer(m.origin_public_key)
                       /\ Decrypts(m)
                       /\ call.body = UserBody(m.payload)

\* C19 witness: relay 1 sent an entry of origin 2; the message passed to the
\* next service has peer 2, not the relay, as its source peer.
C19_Witness ==
    \E t \in Tasks :
        /\ ResponseTask(t)
        /\ task[t].message.source_peer = Peer(1)
        /\ Len(task[t].messages) = 1
        /\ task[t].messages[1].origin_public_key = 2
        /\ Len(task[t].calls) = 1
        /\ task[t].calls[1].source_peer = Peer(2)
        /\ task[t].calls[1].body = UserBody(task[t].messages[1].payload)

\* Task t waits in send_message for room on the outbound channel.
Blocked(t) == task[t].pc = "req_send" /\ Len(outbound) >= oms_capacity

\* C20: the lock of the store is held by at most one task, and only inside
\* with_inner: after the region check has let the request in, before anything
\* is sent, at no point where the task waits or sends.  A request handler
\* that waits for room on the outbound channel holds no lock: unless another
\* task holds it, the storage producer can insert and a request waiting for
\* the lock can take it and filter.
C20_NoSuspensionUnderLock ==
    \A t \in Tasks :
        /\ task[t].holds_lock =>
               /\ task[t].pc = "req_filter"
               /\ task[t].region = "in"
               /\ task[t].sent = <<>>
               /\ \A u \in Tasks \ {t} : ~task[u].holds_lock
        /\ task[t].pc \in {"idle", "run", "req_lock", "req_send", "done"} =>
               ~task[t].holds_lock
        /\ (Blocked(t) /\ \A u \in Tasks \ {t} : ~task[u].holds_lock) =>
               /\ ENABLED Insert(ConcurrentInserts)
               /\ \A u \in Tasks \ {t} :
                      task[u].pc = "req_lock" => ENABLED Request_Lock(u)

\* C20 witness: one request handler waits for room on the outbound channel
\* while the other is inside with_inner, filtering the store.
C20_Witness ==
    \E t, u \in Tasks :
        /\ t /= u
        /\ Blocked(t)
        /\ task[t].reads = 1
        /\ task[u].holds_lock
        /\ store /= <<>>

\* The events task t has logged for failed entries.
FailureLogs(t) == SelectSeq(task[t].logs, LAMBDA l : l.level \in {"debug", "warn"})
\* The entries of task t up to position n whose process task failed.
FailedUpTo(t, n) ==
    { i \in 1..Len(task[t].results) : i <= n /\ task[t].results[i].err /= "Ok" }
\* The position of the entry task t passed to the next service last.
LastDelivered(t) ==
    IF task[t].calls = <<>> THEN 0
    ELSE CHOOSE i \in 1..Len(task[t].results) :
             /\ task[t].results[i].err = "Ok"
             /\ Cardinality({ j \in 1..i : task[t].results[j].err = "Ok" })
                    = Len(task[t].calls)

\* C21 as stated: when the first entry of a response is passed to the next
\* service, every process task of the response has completed and every
\* failure among them has been logged.
C21_Original ==
    \A t \in Tasks :
        (ResponseTask(t) /\ task[t].calls /= <<>>) =>
            /\ \A i \in 1..Len(task[t].results) : task[t].results[i] /= Pending
            /\ Len(FailureLogs(t)) = Cardinality(FailedUpTo(t, Len(task[t].results)))

\* C21 amended: no entry is passed to the next service, and nothing is
\* logged, before every process task of the response has completed.  The
\* failures are logged as the results are gone through, in the order of the
\* response: when an entry is passed on, the failures of the entries before
\* it have been logged, those of the entries after it have not; all are
\* logged when the handler returns.
C21_JoinBeforeDelivery ==
    \A t \in Tasks :
        ResponseTask(t) =>
            /\ (task[t].calls /= <<>> \/ task[t].logs /= <<>>) =>
                   /\ task[t].pc \in {"resp_forward", "done"}
                   /\ \A i \in 1..Len(task[t].results) : task[t].results[i] /= Pending
            /\ task[t].pc = "resp_forward" =>
                   Len(FailureLogs(t)) = Cardinality(FailedUpTo(t, LastDelivered(t)))
            /\ (task[t].pc = "done" /\ ParsedResponse(t)) =>
                   Len(FailureLogs(t)) = Cardinality(FailedUpTo(t, Len(task[t].results)))

\* C21 witness: of a response of two entries the first was passed to the next
\* service after both process tasks had completed, the second having failed;
\* that failure is not logged yet.
C21_Witness ==
    \E t \in Tasks :
        /\ ResponseTask(t)
        /\ task[t].pc = "resp_forward"
        /\ Len(task[t].results) = 2
        /\ task[t].results[1].err = "Ok"
        /\ task[t].results[2].err \notin {"Ok", "pending"}
        /\ Len(task[t].calls) = 1
        /\ FailureLogs(t) = <<>>

\* What a requester asking with `since` is to receive from store s at time t:
\* the entries for it, in the order of the store, cut to
\* saf_max_returned_messages.
SnapshotFilter(s, t, since, requester) ==
    LET el == Eligible(s, t, since, requester)
        n == Min(Cardinality(el), saf_max_returned_messages)
    IN  [k \in 1..n |->
            s[CHOOSE i \in el : Cardinality({ j \in el : j <= i }) = k].msg]

\* C22: with request handlers and the storage producer running at once, the
\* store does not change while a handler is inside with_inner, so the
\* response the handler has collected when it leaves, entry by entry, is the
\* filter of the one store state of that moment; it is not changed after
\* that and it is the response that is sent.
C22_ResponseIsOneSnapshot ==
    [][\A t \in Tasks :
          /\ (task[t].holds_lock /\ task'[t].holds_lock) => store' = store
          /\ (task[t].pc = "req_filter" /\ task'[t].pc = "req_send") =>
                 task'[t].messages = SnapshotFilter(store, now, task[t].since,
                                                    task[t].message.source_peer)
          /\ (task[t].pc = "req_send" /\ task'[t].pc \in {"req_send", "done"}) =>
                 /\ task'[t].messages = task[t].messages
                 /\ task'[t].result = "Ok" =>
                        /\ Len(task'[t].sent) = 1
                        /\ task'[t].sent[1].messages = task[t].messages
      ]_vars

\* C22 witness: one handler is about to send a response whose entry has since
\* been evicted from the store by the storage producer, while the other
\* handler is inside with_inner and has gone over part of the store.
C22_Witness ==
    \E t, u \in Tasks :
        /\ t /= u
        /\ task[t].pc = "req_send"
        /\ task[t].messages /= <<>>
        /\ \A i \in 1..Len(store) : store[i].msg /= task[t].messages[1]
        /\ task[u].holds_lock
        /\ task[u].cursor >= 1
        /\ task[u].cursor < Len(store)

====
